---- MODULE Spec2Model ----
(***************************************************************************)
(* Street Coverage Engine of streetquest: the MapView component with       *)
(* sampled coverage (src/components/StreetToast.tsx, second unit, lines    *)
(* 38-785), its geometry helpers, its badge queue and its persistence      *)
(* scheduling, with saveExploration of src/unnamed/part_003.               *)
(*                                                                         *)
(* Numbers.  Coordinates are integers in units of 1/111000 degree close to *)
(* latitude 0, so that the code's "delta * 111000 * cosLat" is the delta   *)
(* itself, in metres (cosLat = 1 to within 1e-11 there).  Street           *)
(* geometries are axis-aligned with segment lengths that are multiples of  *)
(* SAMPLE_STEP_METERS, which makes every square root and every division    *)
(* below exact.  Distances are carried as their squares (Math.sqrt is      *)
(* monotone), and compared with the squares of the code's thresholds.      *)
(* Normalised positions t are exact fractions <<num, den>> in lowest terms.*)
(***************************************************************************)
EXTENDS Integers, Sequences, FiniteSets, TLC

\* ------------------------------------------------------------- constants

SAVE_EVERY_N == 10
SAMPLE_STEP_METERS == 5
COVERAGE_RADIUS_METERS == 15
MAP_MATCH_MAX_DIST == 50
\* CACHE_TTL_MS = 24 * 60 * 60 * 1000
CACHE_TTL_MS == 86400000
\* the hosts of ENDPOINTS, in their order
ENDPOINTS == <<"overpass-api.de", "overpass.kumi.systems", "overpass.private.coffee">>
\* VALIDATION_THRESHOLD = 0.80 as the fraction 4/5
VALIDATION_THRESHOLD == <<4, 5>>
\* Infinity of the nearest-distance searches (larger than any squared distance)
Infinity == 1000000000

BADGE_DEFS ==
  << [id |-> "first_step",  threshold |-> 1],
     [id |-> "explorer",    threshold |-> 50],
     [id |-> "walker",      threshold |-> 125],
     [id |-> "connoisseur", threshold |-> 249],
     [id |-> "master",      threshold |-> 498] >>

BadgeIds == {BADGE_DEFS[i].id : i \in DOMAIN BADGE_DEFS}

ThresholdOf(id) == BADGE_DEFS[CHOOSE i \in DOMAIN BADGE_DEFS : BADGE_DEFS[i].id = id].threshold

\* ------------------------------------------------------------- arithmetic

Sq(x) == x * x

Abs(x) == IF x < 0 THEN -x ELSE x

RECURSIVE GCD(_, _)
GCD(a, b) == IF b = 0 THEN a ELSE GCD(b, a % b)

\* the fraction n/d (n >= 0, d > 0) in lowest terms
Rat(n, d) == LET g == GCD(n, d) IN <<n \div g, d \div g>>

RatLT(a, b) == a[1] * b[2] < b[1] * a[2]

RatLE(a, b) == a[1] * b[2] <= b[1] * a[2]

\* Math.sqrt(dx*dx + dy*dy) on the perfect squares the datasets produce
Hypot(dx, dy) ==
  IF dx = 0 THEN Abs(dy)
  ELSE IF dy = 0 THEN Abs(dx)
  ELSE CHOOSE r \in 0..(Abs(dx) + Abs(dy)) :
         r * r <= Sq(dx) + Sq(dy) /\ (r + 1) * (r + 1) > Sq(dx) + Sq(dy)

\* Math.ceil(a / b) for a >= 0, b > 0
Ceil(a, b) == (a + b - 1) \div b

RECURSIVE SumSeq(_)
SumSeq(s) == IF s = <<>> THEN 0 ELSE Head(s) + SumSeq(Tail(s))

Range(s) == {s[i] : i \in DOMAIN s}

\* ------------------------------------------------------------- geo helpers

\* distancePointToPoint, squared
distancePointToPoint(px, py, qx, qy) == Sq(px - qx) + Sq(py - qy)

\* the "Precompute segment lengths" loop shared by the three polyline helpers
segLengthsOf(coords) ==
  [i \in 1..(Len(coords) - 1) |->
     Hypot(coords[i + 1][1] - coords[i][1], coords[i + 1][2] - coords[i][2])]

\* one iteration of projectOntoLineString's main loop, for segment i:
\* the clamped projection of (px, py) on it
projectOnSegment(px, py, coords, i, segLen, cumDist, total) ==
  LET ax == coords[i][1]
      ay == coords[i][2]
      bx == coords[i + 1][1]
      by == coords[i + 1][2]
      dLon == bx - ax
      dLat == by - ay
      den == IF segLen > 0 THEN segLen * segLen ELSE 1
      raw == IF segLen > 0 THEN (px - ax) * dLon + (py - ay) * dLat ELSE 0
      \* localT = num / den, clamped to [0, 1]
      num == IF raw < 0 THEN 0 ELSE IF raw > den THEN den ELSE raw
      cLon == ax + (dLon * num) \div den
      cLat == ay + (dLat * num) \div den
  IN [ dist |-> Sq(px - cLon) + Sq(py - cLat),
       t    |-> IF total > 0 THEN Rat(cumDist * den + num * segLen, den * total)
                ELSE <<0, 1>>,
       lon  |-> cLon,
       lat  |-> cLat ]

\* faulty variant: "dist <= bestDist", the last of equal projections wins
RECURSIVE projectLoopLastWins(_, _, _, _, _, _, _)
projectLoopLastWins(px, py, coords, segLengths, i, cumDist, best) ==
  IF i > Len(coords) - 1 THEN best
  ELSE LET c == projectOnSegment(px, py, coords, i, segLengths[i], cumDist,
                                 SumSeq(segLengths))
           nb == IF c.dist <= best.distance
                 THEN [t |-> c.t, lon |-> c.lon, lat |-> c.lat, distance |-> c.dist]
                 ELSE best
       IN projectLoopLastWins(px, py, coords, segLengths, i + 1,
                              cumDist + segLengths[i], nb)

RECURSIVE projectLoop(_, _, _, _, _, _, _)
projectLoop(px, py, coords, segLengths, i, cumDist, best) ==
  IF i > Len(coords) - 1 THEN best
  ELSE LET c == projectOnSegment(px, py, coords, i, segLengths[i], cumDist,
                                 SumSeq(segLengths))
           nb == IF c.dist < best.distance
                 THEN [t |-> c.t, lon |-> c.lon, lat |-> c.lat, distance |-> c.dist]
                 ELSE best
       IN projectLoop(px, py, coords, segLengths, i + 1, cumDist + segLengths[i], nb)

\* projectOntoLineString for a polyline with at least one vertex (the code
\* reads coords[0] unconditionally)
projectOntoLineString(px, py, coords) ==
  projectLoop(px, py, coords, segLengthsOf(coords), 1, 0,
              [t |-> <<0, 1>>, lon |-> coords[1][1], lat |-> coords[1][2],
               distance |-> Infinity])

\* sampleLineStringWithT: the samples of segment i (j = 0 .. steps-1)
samplesOfSegment(coords, segLengths, i, cumDist, total, stepMeters) ==
  LET ax == coords[i][1]
      ay == coords[i][2]
      bx == coords[i + 1][1]
      by == coords[i + 1][2]
      segLen == segLengths[i]
      c == Ceil(segLen, stepMeters)
      steps == IF c > 1 THEN c ELSE 1
  IN [k \in 1..steps |->
        [ lon |-> ax + ((bx - ax) * (k - 1)) \div steps,
          lat |-> ay + ((by - ay) * (k - 1)) \div steps,
          t   |-> IF total > 0
                  THEN Rat(cumDist * steps + (k - 1) * segLen, steps * total)
                  ELSE <<0, 1>> ]]

RECURSIVE sampleLoop(_, _, _, _, _, _)
sampleLoop(coords, segLengths, i, cumDist, total, stepMeters) ==
  IF i > Len(coords) - 1 THEN <<>>
  ELSE samplesOfSegment(coords, segLengths, i, cumDist, total, stepMeters)
       \o sampleLoop(coords, segLengths, i + 1, cumDist + segLengths[i], total, stepMeters)

\* faulty variant: the final sample at the last vertex is not appended
sampleWithoutLast(coords, stepMeters) ==
  IF Len(coords) < 2 THEN <<>>
  ELSE LET segLengths == segLengthsOf(coords)
       IN sampleLoop(coords, segLengths, 1, 0, SumSeq(segLengths), stepMeters)

sampleLineStringWithT(coords, stepMeters) ==
  IF Len(coords) < 2 THEN <<>>
  ELSE LET segLengths == segLengthsOf(coords)
           last == coords[Len(coords)]
       IN sampleLoop(coords, segLengths, 1, 0, SumSeq(segLengths), stepMeters)
          \o << [lon |-> last[1], lat |-> last[2], t |-> <<1, 1>>] >>

\* whether subLineString(coords, t0, t1) returns a polyline (not null)
subLineStringNonNull(coords, t0, t1) ==
  /\ ~ RatLE(t1, t0)
  /\ Len(coords) >= 2
  /\ SumSeq(segLengthsOf(coords)) # 0

\* subLineString: the point "[ax + (bx - ax) * localT, ay + (by - ay) * localT]"
\* with localT = off / segLen (0 when segLen = 0), off the fraction
\* <<num, den>>; each coordinate is a fraction in lowest terms
pointAlong(a, b, segLen, off) ==
  IF segLen > 0
  THEN << Rat(a[1] * off[2] * segLen + (b[1] - a[1]) * off[1], off[2] * segLen),
          Rat(a[2] * off[2] * segLen + (b[2] - a[2]) * off[1], off[2] * segLen) >>
  ELSE << <<a[1], 1>>, <<a[2], 1>> >>

\* a vertex as a point of a sub-polyline
vertexPoint(v) == << <<v[1], 1>>, <<v[2], 1>> >>

\* the main loop of subLineString from segment i on; startDist and endDist
\* are the fractions t0 * total and t1 * total
RECURSIVE subLoop(_, _, _, _, _, _, _)
subLoop(coords, segLengths, i, cumDist, startDist, endDist, points) ==
  IF i > Len(coords) - 1 THEN points
  ELSE LET segStart == cumDist
           segEnd == cumDist + segLengths[i]
           segLen == segLengths[i]
           a == coords[i]
           b == coords[i + 1]
       IN IF segEnd * startDist[2] < startDist[1]
          THEN subLoop(coords, segLengths, i + 1, segEnd, startDist, endDist, points)
          ELSE IF segStart * endDist[2] > endDist[1]
          THEN points
          ELSE LET fromStart == startDist[1] - segStart * startDist[2]
                   off0 == IF fromStart > 0 THEN <<fromStart, startDist[2]>> ELSE <<0, 1>>
                   p1 == IF points = << >>
                         THEN << pointAlong(a, b, segLen, off0) >>
                         ELSE points
               IN IF segEnd * endDist[2] <= endDist[1]
                  THEN subLoop(coords, segLengths, i + 1, segEnd, startDist, endDist,
                               Append(p1, vertexPoint(b)))
                  ELSE Append(p1, pointAlong(a, b, segLen,
                                             <<endDist[1] - segStart * endDist[2],
                                               endDist[2]>>))

\* subLineString(coords, t0, t1): null |-> TRUE is the code's null
subLineString(coords, t0, t1) ==
  IF RatLE(t1, t0) \/ Len(coords) < 2 THEN [null |-> TRUE, points |-> << >>]
  ELSE LET segLengths == segLengthsOf(coords)
           total == SumSeq(segLengths)
       IN IF total = 0 THEN [null |-> TRUE, points |-> << >>]
          ELSE LET points == subLoop(coords, segLengths, 1, 0,
                                     <<t0[1] * total, t0[2]>>, <<t1[1] * total, t1[2]>>,
                                     << >>)
               IN IF Len(points) >= 2 THEN [null |-> FALSE, points |-> points]
                  ELSE [null |-> TRUE, points |-> << >>]

\* "let bestLon = coords[0][0]" on a polyline without vertices: coords[0] is
\* undefined and the read raises a TypeError
projectThrows(coords) == Len(coords) = 0

\* one step of findNearestSegment's loop over the coverages, from index i;
\* the loop ends at the first projection that raises (threw)
RECURSIVE nearestLoop(_, _, _, _, _)
nearestLoop(lon, lat, coverages, i, best) ==
  IF i > Len(coverages) THEN best
  ELSE IF projectThrows(coverages[i].coords) THEN [best EXCEPT !.threw = TRUE]
  ELSE LET proj == projectOntoLineString(lon, lat, coverages[i].coords)
           nb == IF proj.distance < best.distance
                 THEN [found |-> TRUE, idx |-> i, t |-> proj.t,
                       snappedLon |-> proj.lon, snappedLat |-> proj.lat,
                       distance |-> proj.distance, threw |-> FALSE]
                 ELSE best
       IN nearestLoop(lon, lat, coverages, i + 1, nb)

\* findNearestSegment; found = FALSE is the code's null, idx the winning
\* coverage's position in the coverage array; threw = TRUE when the call
\* raised instead of returning
findNearestSegment(lon, lat, coverages) ==
  nearestLoop(lon, lat, coverages, 1,
              [found |-> FALSE, idx |-> 0, t |-> <<0, 1>>,
               snappedLon |-> lon, snappedLat |-> lat, distance |-> Infinity,
               threw |-> FALSE])

\* ------------------------------------------------------------- inputs

\* number of one-fix streets on the route of the batch dataset
NumTiny == 11

\* number of one-fix streets of the badge dataset
NumFew == 3

\* number of sampling steps along the street of the walk
WalkSteps == 22

\* the positions a GPS fix can report, <<lon, lat>>
FixPositions ==
  << <<0, 0>>, <<20, 0>>, <<100, 0>>, <<100, 10>>, <<5, 25>>, <<5, 52>>, <<300, 300>> >>

\* the positions along the route of the batch dataset
RoutePosition(k) == <<20 * k, 500>>

\* what /api/streets can answer: a city with a 40 m street (9 samples), a
\* 20 m street (5 samples), a one-vertex way and a street with a bend
DatasetSmall ==
  << [id |-> 1, coords |-> << <<0, 0>>, <<40, 0>> >>],
     [id |-> 2, coords |-> << <<100, 0>>, <<100, 20>> >>],
     [id |-> 3, coords |-> << <<200, 200>> >>],
     [id |-> 4, coords |-> << <<0, 50>>, <<10, 50>>, <<10, 60>> >>] >>

DatasetEmpty == << >>

\* a city one of whose ways came without geometry: a 40 m street, a way with
\* no vertex, a 20 m street
DatasetNoVertex ==
  << [id |-> 1, coords |-> << <<0, 0>>, <<40, 0>> >>],
     [id |-> 5, coords |-> << >>],
     [id |-> 2, coords |-> << <<100, 0>>, <<100, 20>> >>] >>

\* a street of 5 m starting at p: two samples, covered by any fix snapped to it
TinyWay(id, p) == [id |-> id, coords |-> << p, <<p[1] + 5, p[2]>> >>]

\* a city of NumFew such streets, at the first fix positions
DatasetFew == [i \in 1..NumFew |-> TinyWay(10 + i, FixPositions[i])]

\* a city of NumTiny such streets along the route
DatasetMany == [i \in 1..NumTiny |-> TinyWay(100 + i, RoutePosition(i))]

\* a city of one straight street of SAMPLE_STEP_METERS * WalkSteps metres
DatasetWalk ==
  << [id |-> 201,
      coords |-> << <<0, 1000>>, <<SAMPLE_STEP_METERS * WalkSteps, 1000>> >>] >>

\* the fixes of a walk along that street, every 2 * SAMPLE_STEP_METERS from
\* its start; the last one is WalkLast
WalkPosition(k) == <<2 * SAMPLE_STEP_METERS * k, 1000>>

WalkLast == WalkSteps \div 2

\* longest coverage list handed to findNearestSegment on its own
GeoMaxList == 2

\* the polylines the geometry helpers are called with on their own: two
\* parallel streets, a street across, a street with a bend, a one-vertex
\* way, a way without vertices, a way of two equal vertices, a street with a
\* repeated vertex
GeoLines ==
  << << <<0, 0>>, <<40, 0>> >>,
     << <<0, 20>>, <<40, 20>> >>,
     << <<100, 0>>, <<100, 20>> >>,
     << <<0, 50>>, <<10, 50>>, <<10, 60>> >>,
     << <<200, 200>> >>,
     << >>,
     << <<60, 60>>, <<60, 60>> >>,
     << <<0, 80>>, <<10, 80>>, <<10, 80>>, <<20, 80>> >> >>

\* the coverage entry of polyline k, as far as findNearestSegment reads it
GeoEntry(k) == [wayId |-> k, coords |-> GeoLines[k], validated |-> (k % 2 = 0)]

\* the coverage lists: up to GeoMaxList distinct entries, in any order
GeoLists ==
  UNION { { [i \in 1..n |-> GeoEntry(f[i])] :
              f \in { g \in [1..n -> DOMAIN GeoLines] :
                        \A i, j \in 1..n : g[i] = g[j] => i = j } } :
          n \in 0..GeoMaxList }

\* the points projected on them
GeoPoints ==
  { <<0, 0>>, <<20, 10>>, <<50, 10>>, <<100, 10>>, <<5, 52>>, <<10, 85>>, <<60, 60>>,
    <<300, 300>> }

\* the polylines projectOntoLineString is called with on its own: those, and
\* a closed way, whose last vertex is its first
GeoProjectLines ==
  GeoLines \o << << <<0, 100>>, <<10, 100>>, <<10, 110>>, <<0, 110>>, <<0, 100>> >> >>

\* the points projected: the vertices of the polyline, and the points above
GeoProjectPoints(coords) == Range(coords) \cup GeoPoints

\* the normalised positions handed to subLineString
GeoFractions == { <<0, 1>>, <<1, 4>>, <<1, 2>>, <<3, 4>>, <<1, 1>> }

\* the calls of the three helpers
GeoCalls ==
  { [fn |-> "findNearestSegment", lon |-> pt[1], lat |-> pt[2], coverages |-> list] :
      pt \in GeoPoints, list \in GeoLists }
  \cup { [fn |-> "sampleLineStringWithT", coords |-> GeoLines[k], stepMeters |-> step] :
           k \in DOMAIN GeoLines, step \in {SAMPLE_STEP_METERS, 2 * SAMPLE_STEP_METERS} }
  \cup { [fn |-> "subLineString", coords |-> GeoLines[k], t0 |-> t0, t1 |-> t1] :
           k \in DOMAIN GeoLines, t0 \in GeoFractions, t1 \in GeoFractions }
  \cup UNION { { [fn |-> "projectOntoLineString", px |-> pt[1], py |-> pt[2],
                  coords |-> GeoProjectLines[k]] :
                   pt \in GeoProjectPoints(GeoProjectLines[k]) } :
               k \in DOMAIN GeoProjectLines }

\* n way ids that belong to no loaded street
Pad(n) == [k \in 1..n |-> 1000 + k]

\* what loadExploration can answer (explored_way_ids, badges of the stored row)
Snapshot(ids, badges) == [exploredIds |-> ids, badges |-> badges]

NoSnapshot == Snapshot(<< >>, << >>)

SnapshotsSmall ==
  { NoSnapshot,
    Snapshot(<<1>>, <<"first_step">>),
    Snapshot(<<2, 2>>, <<"first_step">>),
    Snapshot(<<4, 999>>, << >>),
    Snapshot(<<3>>, <<"first_step">>) }

SnapshotsBadges ==
  { NoSnapshot,
    Snapshot(<<11>>, <<"first_step">>),
    Snapshot(Pad(ThresholdOf("explorer") - 1), <<"first_step">>),
    Snapshot(Pad(ThresholdOf("explorer") - 1), << >>),
    Snapshot(Pad(ThresholdOf("walker") - 1), << >>) }

SnapshotsMany ==
  { NoSnapshot,
    Snapshot(<<101>>, <<"first_step">>),
    Snapshot(<<102, 102>>, <<"first_step">>),
    Snapshot(Pad(ThresholdOf("explorer") - SAVE_EVERY_N), <<"first_step">>) }

\* stored rows without badges, the second two streets short of the second
\* badge threshold
SnapshotsRace ==
  { NoSnapshot,
    Snapshot(Pad(ThresholdOf("explorer") - 2), << >>) }

\* a stored row that names no street of the city
SnapshotsWalk ==
  { NoSnapshot,
    Snapshot(<<999>>, <<"first_step">>) }

\* what an Overpass endpoint can answer to one request: a 2xx with a JSON
\* body, a 2xx whose body is not JSON, a 429, another error status, or no
\* answer at all (fetch rejects)
Answers == {"200", "200 not JSON", "429", "500", "network error"}

\* the city names GET /api/streets is asked for
Cities == {"Lyon", "Nantes"}

\* cache.get(city) === undefined
NoEntry == [stored |-> FALSE]

\* the GET requests followed, and the days the server clock runs over
MaxGets == 2
MaxDays == 2

\* the instants the server clock is read at: each day boundary, the
\* millisecond before and the millisecond after
Instants ==
  {t \in {d * CACHE_TTL_MS + k : d \in 0..MaxDays, k \in {-1, 0, 1}} : t >= 0}

\* what overpassFetch hands the route for the streets query: the types of the
\* elements answered, or "failed" when it threw
StreetsAnswers == {"failed", <<"way">>, <<"way", "node", "way">>}

\* the same for the boundary query
BoundaryAnswers == {"failed", << >>, <<"way", "relation">>}

\* the changes of the search field followed, and the longest text typed
MaxKeys == 3
MaxQueryLen == 3

\* the characters typed in the search field
Chars == {"a", " ", "-"}

\* the texts the search field can hold
Queries == UNION {[1..n -> Chars] : n \in 0..MaxQueryLen}

\* what /api/nominatim can answer a search with: results that pass isCity,
\* none that does, or an error
SearchAnswers == {"cities", "none", "error"}

\* ------------------------------------------------------------- state

VARIABLES
  serverStreets,    \* the ways /api/streets answers for the city
  stored,           \* the row loadExploration answers for (userId, city)
  phase,            \* the map "load" handler: created, loading, ready, failed
  mapAlive,         \* mapRef.current # null
  userIdSet,        \* userIdRef.current # null
  geojsonLoaded,    \* geojsonRef.current # null
  features,         \* geojsonRef.current.features
  coverages,        \* segmentCoveragesRef.current
  validatedWayIds,  \* validatedWayIdsRef.current
  savedCount,       \* savedCountRef.current
  unlockedBadges,   \* unlockedBadgesRef.current
  badgeQueue,       \* badgeQueueRef.current (badge ids)
  currentBadge,     \* currentBadgeRef.current, "null" when none
  advanceTimer,     \* handleBadgeDismiss's 400 ms timer is pending
  watching,         \* the geolocation watch is registered
  savedData,        \* the snapshot the load handler restored
  saveRequests,     \* the saveExploration calls made so far, in order
  unlockLog,        \* badge ids pushed on the queue ("[badge] Debloque"), in order
  shownLog,         \* badge ids handed to setCurrentBadge, in order
  exploredSource,   \* way ids of the "streets-explored" map source
  progressSource,   \* way ids of the "streets-progress" map source
  lastPosition,     \* lastPositionRef.current, <<>> when null
  table,            \* the rows of "explorations" for (userId, city)
  savePc,           \* where each saveExploration call stands, by request
  droppedNoData,    \* an updatePosition call has returned for want of geojson
  raised,           \* an updatePosition call has raised an error
  droppedLoaded,    \* an updatePosition call has returned at its guards with
                    \* geojson set and coverage entries present
  geoCall,          \* a call of a geometry helper on its own: the helper and its arguments
  geoResult,        \* what that call returned, once it has
  fetchOutcome,     \* an overpassFetch call: idle, running, returned, rejected, threw
  fetchEndpoint,    \* the index in ENDPOINTS its for loop stands at
  fetchRetried,     \* it is in the 5 s wait after a 429 of that endpoint
  fetchLastError,   \* its lastError
  fetchLog,         \* the requests it has sent, with their answers, in order
  cache,            \* the route module's cache: the entry of each city, if any
  now,              \* Date.now() on the server
  gets,             \* the GET /api/streets requests received: city, position, reply
  query,            \* Home's query state
  debounce,         \* the pending debounce timer: the key stroke it was set by, 0 when none
  inflight,         \* the /api/nominatim requests without an answer yet
  suggestions,      \* Home's suggestions state
  typed,            \* the number of changes of query so far
  suggestionsBy     \* the change of query whose handling last set suggestions

vars == << serverStreets, stored, phase, mapAlive, userIdSet, geojsonLoaded,
           features, coverages, validatedWayIds, savedCount, unlockedBadges,
           badgeQueue, currentBadge, advanceTimer, watching, savedData,
           saveRequests, unlockLog, shownLog, exploredSource, progressSource,
           lastPosition, table, savePc, droppedNoData, raised, droppedLoaded,
           geoCall, geoResult, fetchOutcome, fetchEndpoint, fetchRetried,
           fetchLastError, fetchLog, cache, now, gets, query, debounce, inflight,
           suggestions, typed, suggestionsBy >>

\* the rows the table holds when loadExploration answers snapshot: none for
\* the empty answer, else the one row it was read from
storedRows(snapshot) ==
  IF snapshot = NoSnapshot THEN << >>
  ELSE << [ explored_way_ids |-> Range(snapshot.exploredIds),
            total_ways |-> 0,
            badges |-> Range(snapshot.badges) ] >>

InitWith(datasets, snapshots) ==
  /\ serverStreets \in datasets
  /\ stored \in snapshots
  /\ phase = "created"
  /\ mapAlive = TRUE
  /\ userIdSet = FALSE
  /\ geojsonLoaded = FALSE
  /\ features = << >>
  /\ coverages = << >>
  /\ validatedWayIds = {}
  /\ savedCount = 0
  /\ unlockedBadges = {}
  /\ badgeQueue = << >>
  /\ currentBadge = "null"
  /\ advanceTimer = FALSE
  /\ watching = FALSE
  /\ savedData = NoSnapshot
  /\ saveRequests = << >>
  /\ unlockLog = << >>
  /\ shownLog = << >>
  /\ exploredSource = {}
  /\ progressSource = {}
  /\ lastPosition = << >>
  /\ table = storedRows(stored)
  /\ savePc = << >>
  /\ droppedNoData = FALSE
  /\ raised = FALSE
  /\ droppedLoaded = FALSE

\* no geometry helper is called on its own
NoCall == [fn |-> "none"]

NoResult == [done |-> FALSE]

GeoIdle == geoCall = NoCall /\ geoResult = NoResult

\* no overpassFetch call has been made
OverpassIdle ==
  /\ fetchOutcome = "idle"
  /\ fetchEndpoint = 1
  /\ fetchRetried = FALSE
  /\ fetchLastError = "No endpoints tried"
  /\ fetchLog = << >>

\* the route module as loaded: an empty cache, no request received
RouteIdle ==
  /\ cache = [c \in Cities |-> NoEntry]
  /\ now = 0
  /\ gets = << >>

\* Home as mounted: useState(""), useState([]), useRef(null)
SearchIdle ==
  /\ query = << >>
  /\ debounce = 0
  /\ inflight = {}
  /\ suggestions = << >>
  /\ typed = 0
  /\ suggestionsBy = 0

InitNoCall == GeoIdle /\ OverpassIdle /\ RouteIdle /\ SearchIdle

Init == InitWith({DatasetSmall, DatasetEmpty}, SnapshotsSmall) /\ InitNoCall

InitBadges == InitWith({DatasetFew}, SnapshotsBadges) /\ InitNoCall

InitBatch == InitWith({DatasetMany}, SnapshotsMany) /\ InitNoCall

InitRace == InitWith({DatasetFew}, SnapshotsRace) /\ InitNoCall

InitWalk == InitWith({DatasetWalk}, SnapshotsWalk) /\ InitNoCall

InitDegenerate == InitWith({DatasetSmall, DatasetNoVertex}, SnapshotsSmall) /\ InitNoCall

\* ------------------------------------------------------------- load and restore

\* the coverage entry the load handler builds for one feature
newCoverage(f, idx) ==
  LET samples == sampleLineStringWithT(f.coords, SAMPLE_STEP_METERS)
  IN [ wayId |-> f.id,
       featureIndex |-> idx,
       coords |-> f.coords,
       samples |-> samples,
       covered |-> [i \in 1..Len(samples) |-> FALSE],
       validated |-> FALSE,
       minCoveredT |-> <<1, 1>>,
       maxCoveredT |-> <<0, 1>> ]

\* segmentCoveragesRef.current.find((c) => c.wayId === id): TRUE for the
\* first entry with that way id
isFoundBy(covs, i, id) ==
  /\ covs[i].wayId = id
  /\ \A j \in 1..(i - 1) : covs[j].wayId # id

\* faulty variant: only the flag is set
restoredFlagOnly(cov) == [cov EXCEPT !.validated = TRUE]

\* the entry after "Restore previously validated segments" named it
restoredCoverage(cov) ==
  [cov EXCEPT !.validated = TRUE,
              !.covered = [i \in DOMAIN cov.covered |-> TRUE],
              !.minCoveredT = <<0, 1>>,
              !.maxCoveredT = <<1, 1>>]

\* faulty variant: every entry is restored once the snapshot names a street
restoreAllCoverages(covs, savedIds) ==
  [i \in DOMAIN covs |->
     IF Len(savedIds) > 0 THEN [covs[i] EXCEPT !.validated = TRUE] ELSE covs[i]]

\* savedIds.forEach(...) over freshly built coverages
restoreCoverages(covs, savedIds) ==
  [i \in DOMAIN covs |->
     IF \E k \in DOMAIN savedIds : isFoundBy(covs, i, savedIds[k])
     THEN restoredCoverage(covs[i])
     ELSE covs[i]]

\* validatedWayIdsRef.current after savedIds.forEach((id) => ...add(id))
restoreValidated(validated, savedIds) == validated \cup Range(savedIds)

\* unlockedBadgesRef.current after savedBadges.forEach(...add(id))
restoreBadges(unlocked, savedBadges) == unlocked \cup Range(savedBadges)

\* savedCountRef.current = savedIds.length
restoreSavedCount(savedIds) == Len(savedIds)

\* faulty variant: no filter
allFeatures(feats, validated) == {feats[i].id : i \in DOMAIN feats}

\* faulty variant: find instead of filter, the first validated feature only
firstExploredFeature(feats, validated) ==
  LET hits == {j \in DOMAIN feats : feats[j].id \in validated}
  IN {feats[i].id : i \in {j \in hits : \A k \in hits : j <= k}}

\* geojson.features.filter((f) => validatedWayIdsRef.current.has(f.properties.id))
exploredFeatures(feats, validated) ==
  {feats[i].id : i \in {j \in DOMAIN feats : feats[j].id \in validated}}

\* ------------------------------------------------------------- fix handling

\* faulty variant: only the null check
rejectsOnlyNull(nearest) == ~ nearest.found

\* "!nearest || nearest.distance > MAP_MATCH_MAX_DIST"
isRejected(nearest) ==
  \/ ~ nearest.found
  \/ nearest.distance > Sq(MAP_MATCH_MAX_DIST)

\* faulty variants of the short-circuit: one that only skips entries whose
\* samples are all covered, one that never skips
skipsOnlyFullyCovered(cov) ==
  cov.validated /\ \A i \in DOMAIN cov.covered : cov.covered[i]

neverSkips(cov) == FALSE

\* "if (cov.validated) return"
isAlreadyValidated(cov) == cov.validated

\* faulty variant: "dist < COVERAGE_RADIUS_METERS"
touchedStrictlyInside(cov, snappedLon, snappedLat) ==
  { i \in DOMAIN cov.samples :
      /\ ~ cov.covered[i]
      /\ distancePointToPoint(cov.samples[i].lon, cov.samples[i].lat,
                              snappedLon, snappedLat) < Sq(COVERAGE_RADIUS_METERS) }

\* faulty variant: only a sample at the snapped point itself is covered
touchedAtSnappedPoint(cov, snappedLon, snappedLat) ==
  { i \in DOMAIN cov.samples :
      /\ ~ cov.covered[i]
      /\ distancePointToPoint(cov.samples[i].lon, cov.samples[i].lat,
                              snappedLon, snappedLat) = 0 }

\* step 3: the samples the fix newly covers
touchedSamples(cov, snappedLon, snappedLat) ==
  { i \in DOMAIN cov.samples :
      /\ ~ cov.covered[i]
      /\ distancePointToPoint(cov.samples[i].lon, cov.samples[i].lat,
                              snappedLon, snappedLat) <= Sq(COVERAGE_RADIUS_METERS) }

RECURSIVE RatMin(_, _, _)
RatMin(cov, hit, cur) ==
  IF hit = {} THEN cur
  ELSE LET i == CHOOSE k \in hit : TRUE
           t == cov.samples[i].t
       IN RatMin(cov, hit \ {i}, IF RatLT(t, cur) THEN t ELSE cur)

RECURSIVE RatMax(_, _, _)
RatMax(cov, hit, cur) ==
  IF hit = {} THEN cur
  ELSE LET i == CHOOSE k \in hit : TRUE
           t == cov.samples[i].t
       IN RatMax(cov, hit \ {i}, IF RatLT(cur, t) THEN t ELSE cur)

\* step 3: the entry with those samples marked and the covered range widened
markCovered(cov, hit) ==
  [cov EXCEPT !.covered = [i \in DOMAIN cov.covered |-> cov.covered[i] \/ i \in hit],
              !.minCoveredT = RatMin(cov, hit, cov.minCoveredT),
              !.maxCoveredT = RatMax(cov, hit, cov.maxCoveredT)]

countCovered(cov) == Cardinality({i \in DOMAIN cov.covered : cov.covered[i]})

\* faulty variant of step 5: "ratio <= VALIDATION_THRESHOLD" returns
exceedsThreshold(cov) ==
  \/ Len(cov.samples) = 0
  \/ ~ (countCovered(cov) * VALIDATION_THRESHOLD[2]
          <= VALIDATION_THRESHOLD[1] * Len(cov.samples))

\* step 5: "ratio < VALIDATION_THRESHOLD" is false.  With no samples the
\* ratio is 0/0 = NaN, and NaN < 0.8 is false as well.
reachesThreshold(cov) ==
  \/ Len(cov.samples) = 0
  \/ ~ (countCovered(cov) * VALIDATION_THRESHOLD[2]
          < VALIDATION_THRESHOLD[1] * Len(cov.samples))

\* step 4: the streets that get a polyline in "streets-progress"
progressFeatures(covs) ==
  { covs[i].wayId : i \in
      { j \in DOMAIN covs :
          /\ ~ covs[j].validated
          /\ ~ RatLT(covs[j].maxCoveredT, covs[j].minCoveredT)
          /\ subLineStringNonNull(covs[j].coords, covs[j].minCoveredT,
                                  covs[j].maxCoveredT) } }

\* faulty variant: the set is replaced by the street just validated
replaceValidated(validated, wayId) == {wayId}

\* validatedWayIdsRef.current.add(cov.wayId)
addValidated(validated, wayId) == validated \cup {wayId}

\* faulty variants of the badge filter: one that forgets the unlocked set,
\* one that only fires on the exact count
isCrossedBadge(b, unlocked, currentSize) == currentSize >= b.threshold

isExactBadge(b, unlocked, currentSize) ==
  /\ b.id \notin unlocked
  /\ currentSize = b.threshold

\* "Badge detection": the definitions newly crossed, in BADGE_DEFS order
isNewBadge(b, unlocked, currentSize) ==
  /\ b.id \notin unlocked
  /\ currentSize >= b.threshold

newBadgesOf(unlocked, currentSize) ==
  LET Crossed(b) == isNewBadge(b, unlocked, currentSize)
      defs == SelectSeq(BADGE_DEFS, Crossed)
  IN [i \in DOMAIN defs |-> defs[i].id]

\* newBadges.forEach: unlockedBadgesRef.current.add(b.id)
addUnlocked(unlocked, newBadges) == unlocked \cup Range(newBadges)

\* newBadges.forEach: badgeQueueRef.current.push(...)
pushBadges(queue, newBadges) == queue \o newBadges

\* faulty variant: pop() instead of shift()
popLast(queue) == IF queue = << >> THEN "null" ELSE queue[Len(queue)]

\* badgeQueueRef.current.shift(): the badge taken, "null" on an empty queue
shiftHead(queue) == IF queue = << >> THEN "null" ELSE Head(queue)

\* faulty variant: the queue is emptied when its head is taken
dropAll(queue) == << >>

shiftRest(queue) == IF queue = << >> THEN << >> ELSE Tail(queue)

\* faulty variant: "> SAVE_EVERY_N"
shouldSaveLate(hasUserId, currentSize, saved) ==
  hasUserId /\ currentSize - saved > SAVE_EVERY_N

\* "userId && currentSize - savedCountRef.current >= SAVE_EVERY_N"
shouldSave(hasUserId, currentSize, saved) ==
  hasUserId /\ currentSize - saved >= SAVE_EVERY_N

\* faulty variant: ">= savedCountRef.current"
shouldSaveOnTeardownAlways(hasUserId, hasGeojson, currentSize, saved) ==
  hasUserId /\ hasGeojson /\ currentSize >= saved

\* the cleanup's "userId && geojson && validatedWayIdsRef.current.size > savedCountRef.current"
shouldSaveOnTeardown(hasUserId, hasGeojson, currentSize, saved) ==
  hasUserId /\ hasGeojson /\ currentSize > saved

\* faulty variant: only the ids of loaded streets are sent
savePayloadOfLoaded(validated, feats, unlocked) ==
  [ explored_way_ids |-> {feats[i].id : i \in {j \in DOMAIN feats : feats[j].id \in validated}},
    total_ways |-> Len(feats),
    badges |-> unlocked ]

\* the payload handed to saveExploration
savePayload(validated, feats, unlocked) ==
  [ explored_way_ids |-> validated,
    total_ways |-> Len(feats),
    badges |-> unlocked ]

\* ------------------------------------------------------------- actions

engineVars == << coverages, validatedWayIds, savedCount, unlockedBadges, badgeQueue,
                 currentBadge, saveRequests, savePc, unlockLog, shownLog, exploredSource,
                 progressSource >>

worldVars == << serverStreets, stored, table >>

loadVars == << phase, mapAlive, userIdSet, geojsonLoaded, features, watching, savedData >>

geoVars == << geoCall, geoResult >>

overpassVars == << fetchOutcome, fetchEndpoint, fetchRetried, fetchLastError, fetchLog >>

routeVars == << cache, now, gets >>

searchVars == << query, debounce, inflight, suggestions, typed, suggestionsBy >>

serviceVars == << overpassVars, routeVars, searchVars >>

uiVars == << advanceTimer, lastPosition, droppedNoData, raised, droppedLoaded, geoVars,
            serviceVars >>

\* map.on("load"): getUserId(), then the handler awaits the two fetches
MapLoad ==
  /\ phase = "created"
  /\ mapAlive
  /\ phase' = "loading"
  /\ userIdSet' = TRUE
  /\ UNCHANGED << worldVars, engineVars, mapAlive, geojsonLoaded, features, watching,
                  savedData, uiVars >>

\* the awaited fetch of /api/streets fails or answers an error: the handler
\* throws before geojsonRef is set
LoadFail ==
  /\ phase = "loading"
  /\ phase' = "failed"
  /\ UNCHANGED << worldVars, engineVars, mapAlive, userIdSet, geojsonLoaded, features,
                  watching, savedData, uiVars >>

\* both fetches answered: coverages built, snapshot restored, layers added,
\* watch registered.  On a map that was removed meanwhile the first
\* map.addSource may throw (mapThrows), which skips the rest of the handler.
LoadComplete(mapThrows) ==
  /\ phase = "loading"
  /\ mapAlive => ~ mapThrows
  /\ LET savedIds == stored.exploredIds
         built == [i \in DOMAIN serverStreets |-> newCoverage(serverStreets[i], i - 1)]
         validated == restoreValidated(validatedWayIds, savedIds)
     IN /\ savedData' = stored
        /\ geojsonLoaded' = TRUE
        /\ features' = serverStreets
        /\ coverages' = restoreCoverages(built, savedIds)
        /\ validatedWayIds' = validated
        /\ unlockedBadges' = restoreBadges(unlockedBadges, stored.badges)
        /\ savedCount' = restoreSavedCount(savedIds)
        /\ IF mapThrows
           THEN /\ phase' = "failed"
                /\ UNCHANGED << exploredSource, progressSource, watching >>
           ELSE /\ phase' = "ready"
                /\ exploredSource' = IF Len(savedIds) > 0
                                     THEN exploredFeatures(serverStreets, validated)
                                     ELSE {}
                /\ progressSource' = {}
                /\ watching' = TRUE
  /\ UNCHANGED << worldVars, mapAlive, userIdSet, badgeQueue, currentBadge, saveRequests,
                  savePc, unlockLog, shownLog, uiVars >>

\* updatePosition from step 5 on: cov (at idx, its new samples marked) has
\* reached the threshold
Validate(idx, covs1) ==
  LET validated == addValidated(validatedWayIds, covs1[idx].wayId)
      currentSize == Cardinality(validated)
      newBadges == newBadgesOf(unlockedBadges, currentSize)
      unlocked == addUnlocked(unlockedBadges, newBadges)
      queue1 == pushBadges(badgeQueue, newBadges)
  IN /\ coverages' = [covs1 EXCEPT ![idx].validated = TRUE]
     /\ validatedWayIds' = validated
     /\ exploredSource' = exploredFeatures(features, validated)
     /\ unlockedBadges' = unlocked
     /\ unlockLog' = unlockLog \o newBadges
     /\ IF Len(newBadges) > 0 /\ currentBadge = "null" /\ queue1 # << >>
        THEN /\ currentBadge' = shiftHead(queue1)
             /\ badgeQueue' = shiftRest(queue1)
             /\ shownLog' = Append(shownLog, shiftHead(queue1))
        ELSE /\ badgeQueue' = queue1
             /\ UNCHANGED << currentBadge, shownLog >>
     /\ IF shouldSave(userIdSet, currentSize, savedCount)
        THEN /\ savedCount' = currentSize
             /\ saveRequests' =
                  Append(saveRequests, savePayload(validated, features, unlocked))
             /\ savePc' = Append(savePc, "select")
        ELSE UNCHANGED << savedCount, saveRequests, savePc >>

\* updatePosition from step 3 on: the fix was snapped to the non-validated
\* coverage at idx
Cover(idx, snappedLon, snappedLat) ==
  LET hit == touchedSamples(coverages[idx], snappedLon, snappedLat)
      covs1 == [coverages EXCEPT ![idx] = markCovered(coverages[idx], hit)]
  IN IF hit = {}
     THEN UNCHANGED engineVars
     ELSE /\ progressSource' = progressFeatures(covs1)
          /\ IF reachesThreshold(covs1[idx])
             THEN Validate(idx, covs1)
             ELSE /\ coverages' = covs1
                  /\ UNCHANGED << validatedWayIds, savedCount, unlockedBadges,
                                  badgeQueue, currentBadge, saveRequests, savePc,
                                  unlockLog, shownLog, exploredSource >>

\* faulty variant: the second guard is missing
isNotReadyMapOnly(alive, styleLoaded, hasGeojson, covs) == ~ alive \/ ~ styleLoaded

\* the guards of updatePosition: "!map || !map.isStyleLoaded()" and
\* "!geojson || coverages.length === 0"
isNotReady(alive, styleLoaded, hasGeojson, covs) ==
  ~ alive \/ ~ styleLoaded \/ ~ hasGeojson \/ Len(covs) = 0

\* updatePosition(lon, lat)
updatePosition(pos, styleLoaded) ==
  /\ UNCHANGED << worldVars, loadVars, advanceTimer, geoVars, serviceVars >>
  /\ IF isNotReady(mapAlive, styleLoaded, geojsonLoaded, coverages)
     THEN /\ droppedNoData' = (droppedNoData \/ (mapAlive /\ styleLoaded /\ ~ geojsonLoaded))
          /\ droppedLoaded' = (droppedLoaded \/ (geojsonLoaded /\ Len(coverages) > 0))
          /\ UNCHANGED << engineVars, lastPosition, raised >>
     ELSE /\ lastPosition' = pos
          /\ UNCHANGED << droppedNoData, droppedLoaded >>
          /\ LET nearest == findNearestSegment(pos[1], pos[2], coverages)
             IN /\ raised' = (raised \/ nearest.threw)
                /\ IF nearest.threw \/ isRejected(nearest)
                   THEN UNCHANGED engineVars
                   ELSE IF isAlreadyValidated(coverages[nearest.idx])
                        THEN UNCHANGED engineVars
                        ELSE Cover(nearest.idx, nearest.snappedLon, nearest.snappedLat)

\* the geolocation watch reports a fix: its callback calls updatePosition
Fix(pos, styleLoaded) ==
  /\ watching
  /\ updatePosition(pos, styleLoaded)

\* handleBadgeDismiss, called by BadgeNotification 3 s after a badge is shown;
\* the 400 ms timer of the previous dismissal has fired by then
Dismiss ==
  /\ currentBadge # "null"
  /\ ~ advanceTimer
  /\ currentBadge' = "null"
  /\ advanceTimer' = TRUE
  /\ UNCHANGED << worldVars, loadVars, coverages, validatedWayIds, savedCount,
                  unlockedBadges, badgeQueue, saveRequests, savePc, unlockLog, shownLog,
                  exploredSource, progressSource, lastPosition, droppedNoData, raised,
                  droppedLoaded, geoVars, serviceVars >>

\* the setTimeout callback of handleBadgeDismiss
Advance ==
  /\ advanceTimer
  /\ advanceTimer' = FALSE
  /\ currentBadge' = shiftHead(badgeQueue)
  /\ badgeQueue' = shiftRest(badgeQueue)
  /\ shownLog' = IF shiftHead(badgeQueue) = "null" THEN shownLog
                 ELSE Append(shownLog, shiftHead(badgeQueue))
  /\ UNCHANGED << worldVars, loadVars, coverages, validatedWayIds, savedCount,
                  unlockedBadges, saveRequests, savePc, unlockLog, exploredSource,
                  progressSource, lastPosition, droppedNoData, raised, droppedLoaded,
                  geoVars, serviceVars >>

\* the cleanup of the map effect
Teardown ==
  /\ mapAlive
  /\ mapAlive' = FALSE
  /\ watching' = FALSE
  /\ IF shouldSaveOnTeardown(userIdSet, geojsonLoaded, Cardinality(validatedWayIds),
                             savedCount)
     THEN /\ saveRequests' =
               Append(saveRequests, savePayload(validatedWayIds, features, unlockedBadges))
          /\ savePc' = Append(savePc, "select")
     ELSE UNCHANGED << saveRequests, savePc >>
  /\ UNCHANGED << worldVars, phase, userIdSet, geojsonLoaded, features, savedData,
                  coverages, validatedWayIds, savedCount, unlockedBadges, badgeQueue,
                  currentBadge, unlockLog, shownLog, exploredSource, progressSource,
                  uiVars >>

\* what a save step leaves alone
sessionVars == << serverStreets, stored, loadVars, uiVars, coverages, validatedWayIds,
                  savedCount, unlockedBadges, badgeQueue, currentBadge, saveRequests,
                  unlockLog, shownLog, exploredSource, progressSource >>

\* saveExploration of request k, up to its first await: the select of the
\* row of (user_id, city).  maybeSingle answers an error when several rows
\* match; any request can fail (selectError).
SaveSelect(k, selectError) ==
  /\ savePc[k] = "select"
  /\ Len(table) > 1 => selectError
  /\ savePc' = [savePc EXCEPT ![k] = IF selectError THEN "failed"
                                     ELSE IF Len(table) = 1 THEN "update"
                                     ELSE "insert"]
  /\ UNCHANGED << sessionVars, table >>

\* saveExploration of request k, "if (existing)": the update of every row of
\* (user_id, city) with the payload, unless the request fails
SaveUpdate(k, ok) ==
  /\ savePc[k] = "update"
  /\ savePc' = [savePc EXCEPT ![k] = IF ok THEN "written" ELSE "failed"]
  /\ table' = IF ok THEN [i \in DOMAIN table |-> saveRequests[k]] ELSE table
  /\ UNCHANGED sessionVars

\* saveExploration of request k, "else": the insert of a new row, unless the
\* request fails (the table's keys are not part of this repository: with a
\* row present the insert may be refused or may add a second row; an insert
\* that fails with a row present is recorded as refused)
SaveInsert(k, ok) ==
  /\ savePc[k] = "insert"
  /\ savePc' = [savePc EXCEPT ![k] = IF ok THEN "written"
                                     ELSE IF table # << >> THEN "refused"
                                     ELSE "failed"]
  /\ table' = IF ok THEN Append(table, saveRequests[k]) ELSE table
  /\ UNCHANGED sessionVars

\* the fix positions a walk along the route can report next: where it
\* stands, or one street further
RouteNext ==
  LET here == IF lastPosition = << >> THEN 0
              ELSE CHOOSE k \in 1..NumTiny : RoutePosition(k) = lastPosition
  IN {RoutePosition(k) : k \in {j \in 1..NumTiny : j = here \/ j = here + 1}}

Next ==
  \/ MapLoad
  \/ LoadFail
  \/ \E mapThrows \in BOOLEAN : LoadComplete(mapThrows)
  \/ \E k \in DOMAIN FixPositions, styleLoaded \in BOOLEAN : Fix(FixPositions[k], styleLoaded)
  \/ Dismiss
  \/ Advance
  \/ Teardown
  \/ \E k \in DOMAIN savePc, selectError \in BOOLEAN : SaveSelect(k, selectError)
  \/ \E k \in DOMAIN savePc, ok \in BOOLEAN : SaveUpdate(k, ok)
  \/ \E k \in DOMAIN savePc, ok \in BOOLEAN : SaveInsert(k, ok)

Spec == Init /\ [][Next]_vars

\* the session of the badge city restored from a row without badges
SpecRace == InitRace /\ [][Next]_vars

\* the badge session in which a badge on display is eventually dismissed
\* (BadgeNotification's 3 s timer) and a pending advance timer eventually
\* fires (handleBadgeDismiss's 400 ms timer)
SpecLive == InitBadges /\ [][Next]_vars /\ WF_vars(Dismiss) /\ WF_vars(Advance)

\* the same session with the fixes of a walk along the route
NextBatch ==
  \/ MapLoad
  \/ LoadFail
  \/ \E mapThrows \in BOOLEAN : LoadComplete(mapThrows)
  \/ \E pos \in RouteNext, styleLoaded \in BOOLEAN : Fix(pos, styleLoaded)
  \/ Dismiss
  \/ Advance
  \/ Teardown
  \/ \E k \in DOMAIN savePc, selectError \in BOOLEAN : SaveSelect(k, selectError)
  \/ \E k \in DOMAIN savePc, ok \in BOOLEAN : SaveUpdate(k, ok)
  \/ \E k \in DOMAIN savePc, ok \in BOOLEAN : SaveInsert(k, ok)

SpecBadges == InitBadges /\ [][Next]_vars

SpecBatch == InitBatch /\ [][NextBatch]_vars

\* the same session with updatePosition called at any time, load or no load
NextEarly ==
  \/ MapLoad
  \/ LoadFail
  \/ \E mapThrows \in BOOLEAN : LoadComplete(mapThrows)
  \/ \E k \in DOMAIN FixPositions, styleLoaded \in BOOLEAN :
       updatePosition(FixPositions[k], styleLoaded)
  \/ Dismiss
  \/ Advance
  \/ Teardown
  \/ \E k \in DOMAIN savePc, selectError \in BOOLEAN : SaveSelect(k, selectError)
  \/ \E k \in DOMAIN savePc, ok \in BOOLEAN : SaveUpdate(k, ok)
  \/ \E k \in DOMAIN savePc, ok \in BOOLEAN : SaveInsert(k, ok)

SpecEarly == Init /\ [][NextEarly]_vars

\* the next fix of the walk: its start, then one stride further each time
WalkNext ==
  LET here == IF lastPosition = << >> THEN -1
              ELSE CHOOSE k \in 0..WalkLast : WalkPosition(k) = lastPosition
  IN {WalkPosition(k) : k \in {j \in 0..WalkLast : j = here + 1}}

\* the same session with the fixes of the walk along the single street
NextWalk ==
  \/ MapLoad
  \/ LoadFail
  \/ \E mapThrows \in BOOLEAN : LoadComplete(mapThrows)
  \/ \E pos \in WalkNext, styleLoaded \in BOOLEAN : Fix(pos, styleLoaded)
  \/ Dismiss
  \/ Advance
  \/ Teardown
  \/ \E k \in DOMAIN savePc, selectError \in BOOLEAN : SaveSelect(k, selectError)
  \/ \E k \in DOMAIN savePc, ok \in BOOLEAN : SaveUpdate(k, ok)
  \/ \E k \in DOMAIN savePc, ok \in BOOLEAN : SaveInsert(k, ok)

SpecWalk == InitWalk /\ [][NextWalk]_vars

\* a geometry helper called on its own returns
ApplyNearest ==
  /\ geoCall.fn = "findNearestSegment"
  /\ ~ geoResult.done
  /\ geoResult' = [done |-> TRUE,
                   value |-> findNearestSegment(geoCall.lon, geoCall.lat, geoCall.coverages)]
  /\ UNCHANGED << worldVars, loadVars, engineVars, advanceTimer, lastPosition,
                  droppedNoData, raised, droppedLoaded, geoCall,
                  serviceVars >>

ApplySample ==
  /\ geoCall.fn = "sampleLineStringWithT"
  /\ ~ geoResult.done
  /\ geoResult' = [done |-> TRUE,
                   value |-> sampleLineStringWithT(geoCall.coords, geoCall.stepMeters)]
  /\ UNCHANGED << worldVars, loadVars, engineVars, advanceTimer, lastPosition,
                  droppedNoData, raised, droppedLoaded, geoCall,
                  serviceVars >>

ApplySub ==
  /\ geoCall.fn = "subLineString"
  /\ ~ geoResult.done
  /\ geoResult' = [done |-> TRUE,
                   value |-> subLineString(geoCall.coords, geoCall.t0, geoCall.t1)]
  /\ UNCHANGED << worldVars, loadVars, engineVars, advanceTimer, lastPosition,
                  droppedNoData, raised, droppedLoaded, geoCall,
                  serviceVars >>

ApplyProject ==
  /\ geoCall.fn = "projectOntoLineString"
  /\ ~ geoResult.done
  /\ geoResult' =
       [done |-> TRUE,
        value |-> IF projectThrows(geoCall.coords)
                  THEN [threw |-> TRUE]
                  ELSE [threw |-> FALSE,
                        proj |-> projectOntoLineString(geoCall.px, geoCall.py,
                                                       geoCall.coords)]]
  /\ UNCHANGED << worldVars, loadVars, engineVars, advanceTimer, lastPosition,
                  droppedNoData, raised, droppedLoaded, geoCall,
                  serviceVars >>

\* the helpers on their own, each call drawn from GeoCalls
InitGeo ==
  /\ InitWith({DatasetEmpty}, {NoSnapshot})
  /\ geoCall \in GeoCalls
  /\ geoResult = NoResult
  /\ OverpassIdle /\ RouteIdle /\ SearchIdle

NextGeo ==
  \/ ApplyNearest
  \/ ApplySample
  \/ ApplySub
  \/ ApplyProject

SpecGeo == InitGeo /\ [][NextGeo]_vars

\* the session in a city that may hold a way without geometry
SpecDegenerate == InitDegenerate /\ [][Next]_vars

\* what the stored row of the second city can be
SnapshotsOther ==
  { NoSnapshot,
    Snapshot(<<11>>, <<"first_step">>) }

\* the first city of a visit to two cities
InitCities ==
  /\ InitWith({DatasetSmall}, {NoSnapshot, Snapshot(<<1>>, <<"first_step">>)})
  /\ InitNoCall

\* the city prop changes on the mounted component, once the load handler of
\* the first city has ended: the map effect's cleanup runs (clearWatch, final
\* save of the city left, map.remove()), then the effect runs again and
\* creates the map of the new city.  The refs are those of the component.
\* The save calls of the city left act on that city's row, which is followed
\* no further ("elsewhere").
CityChange ==
  /\ mapAlive
  /\ phase \in {"ready", "failed"}
  /\ serverStreets = DatasetSmall
  /\ serverStreets' = DatasetFew
  /\ stored' \in SnapshotsOther
  /\ table' = storedRows(stored')
  /\ watching' = FALSE
  /\ IF shouldSaveOnTeardown(userIdSet, geojsonLoaded, Cardinality(validatedWayIds),
                             savedCount)
     THEN /\ saveRequests' =
               Append(saveRequests, savePayload(validatedWayIds, features, unlockedBadges))
          /\ savePc' = [k \in 1..(Len(savePc) + 1) |-> "elsewhere"]
     ELSE /\ saveRequests' = saveRequests
          /\ savePc' = [k \in DOMAIN savePc |-> "elsewhere"]
  /\ phase' = "created"
  /\ exploredSource' = {}
  /\ progressSource' = {}
  /\ UNCHANGED << mapAlive, userIdSet, geojsonLoaded, features, savedData, coverages,
                  validatedWayIds, savedCount, unlockedBadges, badgeQueue, currentBadge,
                  unlockLog, shownLog, uiVars >>

\* a visit to two cities on one mounted component
NextCities ==
  \/ MapLoad
  \/ LoadFail
  \/ \E mapThrows \in BOOLEAN : LoadComplete(mapThrows)
  \/ \E k \in DOMAIN FixPositions, styleLoaded \in BOOLEAN : Fix(FixPositions[k], styleLoaded)
  \/ Dismiss
  \/ Advance
  \/ Teardown
  \/ CityChange
  \/ \E k \in DOMAIN savePc, selectError \in BOOLEAN : SaveSelect(k, selectError)
  \/ \E k \in DOMAIN savePc, ok \in BOOLEAN : SaveUpdate(k, ok)
  \/ \E k \in DOMAIN savePc, ok \in BOOLEAN : SaveInsert(k, ok)

SpecCities == InitCities /\ [][NextCities]_vars

\* ------------------------------------------------------------- overpassFetch

\* res.ok
isOk(answer) == answer \in {"200", "200 not JSON"}

\* the message of the error thrown for an answer that is not ok
errorOf(answer) == IF answer = "429" THEN "HTTP 429" ELSE "HTTP 500"

\* the catch of the for loop: lastError = err, then the next endpoint, or
\* "throw lastError" after the last one
overpassCatch(err) ==
  /\ fetchLastError' = err
  /\ fetchRetried' = FALSE
  /\ IF fetchEndpoint = Len(ENDPOINTS)
     THEN fetchOutcome' = "threw" /\ fetchEndpoint' = fetchEndpoint
     ELSE fetchOutcome' = "running" /\ fetchEndpoint' = fetchEndpoint + 1

\* one fetch of overpassFetch and what follows it up to the next await: the
\* first request to the endpoint, or its retry after the 5 s wait.  A 2xx is
\* returned as res.json(), a promise that is not awaited inside the try: when
\* the body is not JSON the call rejects with the parse error.
OverpassRequest(answer) ==
  /\ fetchOutcome = "running"
  /\ fetchLog' = Append(fetchLog, [endpoint |-> fetchEndpoint, answer |-> answer])
  /\ IF answer = "network error"
     THEN overpassCatch("fetch failed")
     ELSE IF answer = "429" /\ ~ fetchRetried
     THEN fetchRetried' = TRUE /\ UNCHANGED << fetchOutcome, fetchEndpoint, fetchLastError >>
     ELSE IF ~ isOk(answer)
     THEN overpassCatch(errorOf(answer))
     ELSE /\ fetchOutcome' = IF answer = "200" THEN "returned" ELSE "rejected"
          /\ UNCHANGED << fetchEndpoint, fetchRetried, fetchLastError >>
  /\ UNCHANGED << worldVars, loadVars, engineVars, advanceTimer, lastPosition,
                  droppedNoData, raised, droppedLoaded, geoVars, routeVars, searchVars >>

\* one overpassFetch call, started
InitOverpass ==
  /\ InitWith({DatasetEmpty}, {NoSnapshot})
  /\ GeoIdle /\ RouteIdle /\ SearchIdle
  /\ fetchOutcome = "running"
  /\ fetchEndpoint = 1
  /\ fetchRetried = FALSE
  /\ fetchLastError = "No endpoints tried"
  /\ fetchLog = << >>

NextOverpass == \E answer \in Answers : OverpassRequest(answer)

SpecOverpass == InitOverpass /\ [][NextOverpass]_vars

\* ------------------------------------------------------------- GET /api/streets

\* faulty variant: an entry is served at its expiry instant
isFreshAtExpiry(t, expiresAt) == t <= expiresAt

\* "Date.now() < cached.expiresAt"
isFresh(t, expiresAt) == t < expiresAt

\* "cached && Date.now() < cached.expiresAt"
cacheHit(city) == cache[city].stored /\ isFresh(now, cache[city].expiresAt)

\* the data built from the two answers: the ways of the first, the first
\* relation of the second or null
routeData(streetsAnswer, boundaryAnswer) ==
  [ streets |-> SelectSeq(streetsAnswer, LAMBDA t : t = "way"),
    relation |-> IF \E i \in DOMAIN boundaryAnswer : boundaryAnswer[i] = "relation"
                 THEN "relation" ELSE "null" ]

\* GET up to its first await: 400 without a city, the cached data on a hit,
\* else the two overpassFetch calls are started
Get(city) ==
  /\ Len(gets) < MaxGets
  /\ gets' = Append(gets,
       IF city = "null"
       THEN [city |-> city, pc |-> "bad request", status |-> 400, body |-> "error"]
       ELSE IF cacheHit(city)
       THEN [city |-> city, pc |-> "hit", status |-> 200, body |-> cache[city].data]
       ELSE [city |-> city, pc |-> "fetching", status |-> 0, body |-> "none"])
  /\ UNCHANGED << cache, now >>
  /\ UNCHANGED << worldVars, loadVars, engineVars, advanceTimer, lastPosition,
                  droppedNoData, raised, droppedLoaded, geoVars, overpassVars, searchVars >>

\* Promise.all of request r settles: with both answers the data is cached
\* for 24 h from now and sent; when either call threw the reply is a 503
GetSettle(r, streetsAnswer, boundaryAnswer) ==
  /\ gets[r].pc = "fetching"
  /\ IF streetsAnswer # "failed" /\ boundaryAnswer # "failed"
     THEN LET data == routeData(streetsAnswer, boundaryAnswer)
          IN /\ cache' = [cache EXCEPT ![gets[r].city] =
                            [stored |-> TRUE, data |-> data,
                             expiresAt |-> now + CACHE_TTL_MS]]
             /\ gets' = [gets EXCEPT ![r] =
                           [city |-> gets[r].city, pc |-> "stored", status |-> 200,
                            body |-> data,
                            answers |-> <<streetsAnswer, boundaryAnswer>>]]
     ELSE /\ cache' = cache
          /\ gets' = [gets EXCEPT ![r] =
                        [city |-> gets[r].city, pc |-> "failed", status |-> 503,
                         body |-> "error",
                         answers |-> <<streetsAnswer, boundaryAnswer>>]]
  /\ now' = now
  /\ UNCHANGED << worldVars, loadVars, engineVars, advanceTimer, lastPosition,
                  droppedNoData, raised, droppedLoaded, geoVars, overpassVars, searchVars >>

\* time passes on the server
Tick(t) ==
  /\ t > now
  /\ now' = t
  /\ UNCHANGED << cache, gets >>
  /\ UNCHANGED << worldVars, loadVars, engineVars, advanceTimer, lastPosition,
                  droppedNoData, raised, droppedLoaded, geoVars, overpassVars, searchVars >>

InitRoute ==
  /\ InitWith({DatasetEmpty}, {NoSnapshot})
  /\ GeoIdle /\ OverpassIdle /\ SearchIdle
  /\ RouteIdle

NextRoute ==
  \/ \E city \in Cities \cup {"null"} : Get(city)
  \/ \E r \in DOMAIN gets, streetsAnswer \in StreetsAnswers,
        boundaryAnswer \in BoundaryAnswers : GetSettle(r, streetsAnswer, boundaryAnswer)
  \/ \E t \in Instants : Tick(t)

SpecRoute == InitRoute /\ [][NextRoute]_vars

\* ------------------------------------------------------------- Home, suggestions

RECURSIVE trimEnd(_)
\* String.prototype.trimEnd on the characters of Chars
trimEnd(q) ==
  IF q # << >> /\ q[Len(q)] = " " THEN trimEnd(SubSeq(q, 1, Len(q) - 1)) ELSE q

RECURSIVE stripHyphens(_)
\* .replace(/-+$/, "")
stripHyphens(q) ==
  IF q # << >> /\ q[Len(q)] = "-" THEN stripHyphens(SubSeq(q, 1, Len(q) - 1)) ELSE q

\* "query.trimEnd().replace(/-+$/, "").length < 3"
tooShort(q) == Len(stripHyphens(trimEnd(q))) < 3

\* setQuery(q) and the run of the suggestion effect it causes: the cleanup
\* the previous run returned (it returned one unless the query was too
\* short) clears the timer; then a too short query empties the suggestions,
\* any other sets the 400 ms timer
Change(q) ==
  /\ typed < MaxKeys
  /\ q # query
  /\ query' = q
  /\ typed' = typed + 1
  /\ IF tooShort(q)
     THEN /\ suggestions' = << >>
          /\ suggestionsBy' = typed + 1
          /\ debounce' = IF tooShort(query) THEN debounce ELSE 0
     ELSE /\ debounce' = typed + 1
          /\ UNCHANGED << suggestions, suggestionsBy >>
  /\ UNCHANGED inflight
  /\ UNCHANGED << worldVars, loadVars, engineVars, advanceTimer, lastPosition,
                  droppedNoData, raised, droppedLoaded, geoVars, overpassVars, routeVars >>

\* the debounce timer fires: the search for its query is sent
TimerFires ==
  /\ debounce # 0
  /\ inflight' = inflight \cup {[key |-> debounce, q |-> query]}
  /\ debounce' = 0
  /\ UNCHANGED << query, suggestions, typed, suggestionsBy >>
  /\ UNCHANGED << worldVars, loadVars, engineVars, advanceTimer, lastPosition,
                  droppedNoData, raised, droppedLoaded, geoVars, overpassVars, routeVars >>

\* a search is answered: setSuggestions(filtered), or setSuggestions([]) in
\* the catch
SearchAnswer(req, answer) ==
  /\ req \in inflight
  /\ inflight' = inflight \ {req}
  /\ suggestions' = IF answer = "cities" THEN <<[of |-> req.q]>> ELSE << >>
  /\ suggestionsBy' = req.key
  /\ UNCHANGED << query, debounce, typed >>
  /\ UNCHANGED << worldVars, loadVars, engineVars, advanceTimer, lastPosition,
                  droppedNoData, raised, droppedLoaded, geoVars, overpassVars, routeVars >>

InitSearch ==
  /\ InitWith({DatasetEmpty}, {NoSnapshot})
  /\ GeoIdle /\ OverpassIdle /\ RouteIdle
  /\ SearchIdle

NextSearch ==
  \/ \E q \in Queries : Change(q)
  \/ TimerFires
  \/ \E req \in inflight, answer \in SearchAnswers : SearchAnswer(req, answer)

SpecSearch == InitSearch /\ [][NextSearch]_vars

\* ------------------------------------------------------------- properties

\* A step of updatePosition: every other action changes the load phase, the
\* map, the dismiss timer, or the progress of a save.  An updatePosition that got past its guards has
\* stored the fix in lastPosition'.
FixStep ==
  /\ phase' = phase /\ mapAlive' = mapAlive /\ advanceTimer' = advanceTimer
  /\ table' = table
  /\ \A k \in DOMAIN savePc : savePc'[k] = savePc[k]

\* what findNearestSegment answers for the fix last stored
nearestOfLast(covs) == findNearestSegment(lastPosition[1], lastPosition[2], covs)

\* C1: no step (restore, fix, dismissal, teardown) removes a way id from
\* the validated set or a badge id from the unlocked set: both only grow.
C1_SetsOnlyGrow ==
  [][ /\ validatedWayIds \subseteq validatedWayIds'
      /\ unlockedBadges \subseteq unlockedBadges' ]_vars

\* a finished session that restored street 1, validated street 2 by fixes
\* and unlocked a badge
C1_Witness ==
  /\ ~ mapAlive
  /\ savedData.exploredIds = <<1>>
  /\ validatedWayIds = {1, 2}
  /\ "first_step" \in unlockedBadges

\* C2: validation is terminal: an entry that is validated is the same entry,
\* at the same place, after any step (covered, minCoveredT, maxCoveredT and
\* validated included).
C2_ValidationTerminal ==
  [][ \A i \in DOMAIN coverages :
        coverages[i].validated =>
          /\ i \in DOMAIN coverages'
          /\ coverages'[i] = coverages[i] ]_vars

\* the last fix was snapped to a validated street within reach of one of its
\* samples that is still not covered
C2_Witness ==
  /\ lastPosition # << >>
  /\ LET n == nearestOfLast(coverages)
     IN /\ n.found
        /\ ~ isRejected(n)
        /\ coverages[n.idx].validated
        /\ touchedSamples(coverages[n.idx], n.snappedLon, n.snappedLat) # {}

\* C3: in every state a street with N >= 1 samples, k of them covered, is
\* validated exactly when k >= ceil(0.80 * N): a fix that brings it to
\* ceil(0.80 * N) validates it, one that brings it to one fewer does not.
C3_ThresholdBoundary ==
  \A i \in DOMAIN coverages :
    LET N == Len(coverages[i].samples)
        k == countCovered(coverages[i])
    IN N >= 1 =>
         (coverages[i].validated
            <=> k >= Ceil(VALIDATION_THRESHOLD[1] * N, VALIDATION_THRESHOLD[2]))

\* one street stands at ceil(0.80 * N) - 1 and is not validated, another was
\* validated by a fix at exactly ceil(0.80 * N) < N
C3_Witness ==
  \E i, j \in DOMAIN coverages :
    LET Ni == Len(coverages[i].samples)
        Nj == Len(coverages[j].samples)
    IN /\ Ni >= 1
       /\ ~ coverages[i].validated
       /\ countCovered(coverages[i])
            = Ceil(VALIDATION_THRESHOLD[1] * Ni, VALIDATION_THRESHOLD[2]) - 1
       /\ Nj >= 1
       /\ coverages[j].validated
       /\ countCovered(coverages[j])
            = Ceil(VALIDATION_THRESHOLD[1] * Nj, VALIDATION_THRESHOLD[2])
       /\ countCovered(coverages[j]) < Nj

\* C4: a fix whose nearest street is validated changes nothing of the engine:
\* no coverage entry, neither set, no queue or badge on display, not
\* savedCount, no save request, no map source.
C4_ValidatedNearestIsNoOp ==
  [][ (FixStep /\ lastPosition' # << >>) =>
        LET n == findNearestSegment(lastPosition'[1], lastPosition'[2], coverages)
        IN (n.found /\ coverages[n.idx].validated) => UNCHANGED engineVars ]_vars

\* the last fix was snapped, within reach, to a street the restore had validated
C4_Witness ==
  /\ lastPosition # << >>
  /\ mapAlive
  /\ LET n == nearestOfLast(coverages)
     IN /\ n.found
        /\ ~ isRejected(n)
        /\ coverages[n.idx].validated
        /\ coverages[n.idx].wayId \in Range(savedData.exploredIds)

\* the ids of the badge definitions whose threshold the count has reached
crossedBadges(count) ==
  {BADGE_DEFS[i].id : i \in {j \in DOMAIN BADGE_DEFS : BADGE_DEFS[j].threshold <= count}}

\* C5: no badge id is pushed on the queue twice, a badge id the restore put
\* in the unlocked set is never pushed, and (unless it was restored)
\* "first_step" has been pushed exactly when a fix has validated a street.
C5_BadgeEmittedOnce ==
  /\ \A i, j \in DOMAIN unlockLog : unlockLog[i] = unlockLog[j] => i = j
  /\ Range(unlockLog) \cap Range(savedData.badges) = {}
  /\ "first_step" \notin Range(savedData.badges) =>
       ("first_step" \in Range(unlockLog)
          <=> validatedWayIds # Range(savedData.exploredIds))

\* "first_step" was restored, two streets were validated since and the
\* second badge was pushed in between
C5_Witness ==
  /\ "first_step" \in Range(savedData.badges)
  /\ Cardinality(validatedWayIds) >= Len(savedData.exploredIds) + 2
  /\ unlockLog = <<"explorer">>

\* C6: after a fix that validates a street every badge whose threshold is
\* <= the size of the validated set is unlocked, and the badges that fix
\* unlocked are all the crossed ones that were not unlocked before.
C6_AllCrossedUnlocked ==
  [][ (FixStep /\ validatedWayIds' # validatedWayIds) =>
        LET crossed == crossedBadges(Cardinality(validatedWayIds'))
        IN /\ crossed \subseteq unlockedBadges'
           /\ unlockedBadges' \ unlockedBadges = crossed \ unlockedBadges
           /\ Range(unlockLog') = Range(unlockLog) \cup (crossed \ unlockedBadges) ]_vars

\* one fix took the count from below the second threshold to the third: three
\* badges in one pass
C6_Witness ==
  /\ savedData.badges = << >>
  /\ Len(savedData.exploredIds) = ThresholdOf("walker") - 1
  /\ Cardinality(validatedWayIds) = ThresholdOf("walker")
  /\ Range(unlockLog) = {"first_step", "explorer", "walker"}

\* C7: badges are pushed in ascending threshold order; the badges put on
\* display so far, followed by the queue, are the badges pushed so far, in
\* that order; the badge on display is the last one taken; and a step leaves
\* the queue as it is, extended at its tail, or that without its head.
C7_QueueIsFifo ==
  [][ /\ \A i, j \in DOMAIN unlockLog' :
           i < j => ThresholdOf(unlockLog'[i]) < ThresholdOf(unlockLog'[j])
      /\ unlockLog' = shownLog' \o badgeQueue'
      /\ currentBadge' # "null" => currentBadge' = shownLog'[Len(shownLog')]
      /\ LET pushed == SubSeq(unlockLog', Len(unlockLog) + 1, Len(unlockLog'))
             grown == badgeQueue \o pushed
         IN \/ badgeQueue' = grown /\ shownLog' = shownLog
            \/ /\ grown # << >>
               /\ badgeQueue' = Tail(grown)
               /\ shownLog' = Append(shownLog, Head(grown))
               /\ currentBadge' = Head(grown) ]_vars

\* two badges have been on display, in order, and a third waits
C7_Witness ==
  /\ Len(shownLog) >= 2
  /\ badgeQueue # << >>
  /\ currentBadge = shownLog[2]

\* C8: a fix that validates a street emits exactly one save request and sets
\* savedCount to the size of the validated set when that size exceeds
\* savedCount by SAVE_EVERY_N or more, and otherwise emits none and leaves
\* savedCount; a fix that validates nothing emits none; after every fix the
\* size exceeds savedCount by less than SAVE_EVERY_N.
C8_BatchedSave ==
  [][ FixStep =>
        LET size == Cardinality(validatedWayIds')
        IN /\ IF validatedWayIds' # validatedWayIds /\ size - savedCount >= SAVE_EVERY_N
              THEN /\ Len(saveRequests') = Len(saveRequests) + 1
                   /\ SubSeq(saveRequests', 1, Len(saveRequests)) = saveRequests
                   /\ saveRequests'[Len(saveRequests')].explored_way_ids = validatedWayIds'
                   /\ savedCount' = size
              ELSE /\ saveRequests' = saveRequests
                   /\ savedCount' = savedCount
           /\ size - savedCount' < SAVE_EVERY_N ]_vars

\* a batch save has been emitted by a fix, SAVE_EVERY_N streets after the restore
C8_Witness ==
  /\ mapAlive
  /\ Len(saveRequests) = 1
  /\ savedCount = Cardinality(validatedWayIds)
  /\ savedCount - Len(savedData.exploredIds) >= SAVE_EVERY_N

\* C9: the teardown emits exactly one save request, of the whole validated
\* set, when the set is larger than savedCount, and none otherwise.
C9_FinalSave ==
  [][ (mapAlive /\ ~ mapAlive') =>
        IF Cardinality(validatedWayIds) > savedCount
        THEN /\ Len(saveRequests') = Len(saveRequests) + 1
             /\ SubSeq(saveRequests', 1, Len(saveRequests)) = saveRequests
             /\ saveRequests'[Len(saveRequests')].explored_way_ids = validatedWayIds
        ELSE saveRequests' = saveRequests ]_vars

\* a session torn down with fewer than SAVE_EVERY_N unsaved streets: its one
\* save request is the final one
C9_Witness ==
  /\ ~ mapAlive
  /\ Len(saveRequests) = 1
  /\ Cardinality(validatedWayIds) - savedCount \in 1..(SAVE_EVERY_N - 1)
  /\ saveRequests[1].explored_way_ids = validatedWayIds

\* C10: once the teardown has run, every validated way id is in the last
\* save request of the session, or, when there is none, in the restored
\* snapshot.
C10_NoProgressLost ==
  ~ mapAlive =>
    IF saveRequests # << >>
    THEN validatedWayIds \subseteq saveRequests[Len(saveRequests)].explored_way_ids
    ELSE validatedWayIds \subseteq Range(savedData.exploredIds)

\* the step of the load handler that builds the coverages and restores the snapshot
RestoreStep == ~ geojsonLoaded /\ geojsonLoaded'

\* the way ids of the coverage entries that are validated
validatedCoverageIds(covs) ==
  {covs[i].wayId : i \in {j \in DOMAIN covs : covs[j].validated}}

\* C11: every save request carries the whole validated set and the whole
\* unlocked set as they are when the step that emits it ends, the street and
\* the badges of that very fix included; a step emits at most one.
C11_FullStateSnapshot ==
  [][ saveRequests' # saveRequests =>
        /\ Len(saveRequests') = Len(saveRequests) + 1
        /\ SubSeq(saveRequests', 1, Len(saveRequests)) = saveRequests
        /\ saveRequests'[Len(saveRequests')].explored_way_ids = validatedWayIds'
        /\ saveRequests'[Len(saveRequests')].badges = unlockedBadges' ]_vars

\* a fix that crossed the second badge threshold emitted a batch save with
\* that badge and that street in it
C11_Witness ==
  /\ mapAlive
  /\ Len(saveRequests) = 1
  /\ "explorer" \notin Range(savedData.badges)
  /\ "explorer" \in saveRequests[1].badges
  /\ Cardinality(saveRequests[1].explored_way_ids) = ThresholdOf("explorer")

\* C12: once an earlier and a later save have both been written, some stored
\* row of (userId, city) holds every way id of the later snapshot.
C12_LaterSaveSurvives ==
  \A i, j \in DOMAIN savePc :
    (i < j /\ savePc[i] = "written" /\ savePc[j] = "written") =>
      \E r \in DOMAIN table :
        saveRequests[j].explored_way_ids \subseteq table[r].explored_way_ids

\* C13: a fix whose nearest street is farther than MAP_MATCH_MAX_DIST (or
\* that has no nearest street) changes nothing of the engine: no coverage
\* entry, neither set, no queue, not savedCount, no map source, no save
\* request.
C13_FarFixIsNoOp ==
  [][ (FixStep /\ lastPosition' # << >>) =>
        LET n == findNearestSegment(lastPosition'[1], lastPosition'[2], coverages)
        IN (~ n.found \/ n.distance > Sq(MAP_MATCH_MAX_DIST)) => UNCHANGED engineVars ]_vars

\* the last fix was too far from every street, with a street in progress
C13_Witness ==
  /\ mapAlive
  /\ lastPosition # << >>
  /\ LET n == nearestOfLast(coverages)
     IN n.found /\ n.distance > Sq(MAP_MATCH_MAX_DIST)
  /\ \E i \in DOMAIN coverages :
       ~ coverages[i].validated /\ countCovered(coverages[i]) > 0

\* C14: an updatePosition call made while the dataset is not loaded, or while
\* there is no coverage entry, changes nothing: no engine state, no stored
\* position, nothing of the load.
C14_EarlyFixIsNoOp ==
  [][ (FixStep /\ (~ geojsonLoaded \/ Len(coverages) = 0)) =>
        UNCHANGED << engineVars, lastPosition, worldVars, loadVars >> ]_vars

\* a call was dropped while the load handler was awaiting its fetches
C14_Witness ==
  /\ droppedNoData
  /\ phase = "loading"
  /\ ~ geojsonLoaded
  /\ mapAlive

\* C15: the restore forces every loaded street the snapshot names to
\* validated, all samples covered, minCoveredT = 0 and maxCoveredT = 1,
\* whatever its samples; it runs in the load handler, before the watch is
\* registered, so before any fix is processed.
C15_RestoreIsAuthoritative ==
  [][ RestoreStep =>
        /\ \A i \in DOMAIN coverages' :
             coverages'[i].wayId \in Range(stored.exploredIds) =>
               /\ coverages'[i].validated
               /\ \A j \in DOMAIN coverages'[i].covered : coverages'[i].covered[j]
               /\ Len(coverages'[i].covered) = Len(coverages'[i].samples)
               /\ coverages'[i].minCoveredT = <<0, 1>>
               /\ coverages'[i].maxCoveredT = <<1, 1>>
        /\ ~ watching
        /\ lastPosition' = << >> ]_vars

\* just restored, no fix yet: a named street with samples is validated and
\* fully covered
C15_Witness ==
  /\ geojsonLoaded
  /\ lastPosition = << >>
  /\ \E i \in DOMAIN coverages :
       /\ coverages[i].wayId \in Range(savedData.exploredIds)
       /\ Len(coverages[i].samples) >= 2
       /\ coverages[i].validated
       /\ countCovered(coverages[i]) = Len(coverages[i].samples)

\* C16: a way id of the snapshot that matches no loaded street is not added
\* to the validated set (and so is not counted): after the load the
\* validated set holds way ids of loaded streets only.
C16_UnknownIdsIgnored ==
  geojsonLoaded =>
    validatedWayIds \subseteq {features[i].id : i \in DOMAIN features}

\* C17: after the load, a way id is in the validated set exactly when a
\* coverage entry with that way id is validated.
C17_ValidatedSetIsValidatedCoverages ==
  geojsonLoaded => validatedWayIds = validatedCoverageIds(coverages)

\* C18: right after the restore the validated geometry (the validated
\* coverage entries, and the "streets-explored" source once it is added) is
\* that of exactly the loaded streets whose way ids the snapshot names.
C18_RestoreIdempotence ==
  [][ RestoreStep =>
        LET named == {serverStreets[i].id : i \in
                        {j \in DOMAIN serverStreets :
                           serverStreets[j].id \in Range(stored.exploredIds)}}
        IN /\ validatedCoverageIds(coverages') = named
           /\ phase' = "ready" => exploredSource' = named ]_vars

\* restored from a snapshot that names one loaded street and one unknown id:
\* the explored source holds that one street
C18_Witness ==
  /\ phase = "ready"
  /\ lastPosition = << >>
  /\ Len(savedData.exploredIds) = 2
  /\ Cardinality(exploredSource) = 1
  /\ exploredSource = validatedCoverageIds(coverages)

C20_DegenerateNeverValidated ==
  \A i \in DOMAIN coverages :
    Len(coverages[i].coords) < 2 =>
      /\ Len(coverages[i].samples) = 0
      /\ ~ coverages[i].validated
      /\ coverages[i].wayId \notin validatedWayIds

\* the coverage entries of the streets that have at least two vertices
withoutDegenerate(covs) ==
  LET HasSegment(c) == Len(c.coords) >= 2
  IN SelectSeq(covs, HasSegment)

\* C21: with a way of 0 or 1 vertices in the dataset no fix raises an error,
\* the nearest-street search never answers that way, and it answers what it
\* answers on the dataset without the ways of fewer than 2 vertices.
C21_DegenerateTolerated ==
  /\ ~ raised
  /\ (geojsonLoaded /\ lastPosition # << >>) =>
       LET n == nearestOfLast(coverages)
           others == withoutDegenerate(coverages)
           m == nearestOfLast(others)
       IN /\ ~ n.threw
          /\ n.found = m.found
          /\ n.found =>
               /\ Len(coverages[n.idx].coords) >= 2
               /\ coverages[n.idx] = others[m.idx]
               /\ n.t = m.t
               /\ n.distance = m.distance
               /\ n.snappedLon = m.snappedLon
               /\ n.snappedLat = m.snappedLat

\* C22: on the walk along the single straight street, once the fix one
\* stride before the far end has been processed the street is validated
\* (so it was validated by a fix strictly before the one at the far end),
\* and a fix that finds the street validated changes nothing of the engine.
C22_WalkValidatesBeforeEnd ==
  [][ FixStep =>
        /\ lastPosition' = WalkPosition(WalkLast - 1) => coverages'[1].validated
        /\ (coverages # << >> /\ coverages[1].validated) => UNCHANGED engineVars ]_vars

\* the walk has reached the far end; the street was validated on the way,
\* with the samples of its far end still not covered
C22_Witness ==
  /\ lastPosition = WalkPosition(WalkLast)
  /\ coverages[1].validated
  /\ 201 \in validatedWayIds
  /\ countCovered(coverages[1]) < Len(coverages[1].samples)
  /\ ~ coverages[1].covered[Len(coverages[1].samples)]

\* C23: no fix delivered while the dataset is loaded (geojson set, coverage
\* entries present) is dropped before the nearest-street search is run.
C23_EveryFixReachesMatching == ~ droppedLoaded

\* C24: once the load has added the map sources, and after every fix, the
\* "streets-explored" source holds exactly the loaded streets whose way id is
\* in the validated set: the fix that validates a street pushes it as well.
C24_ExploredSourceIsValidatedSet ==
  phase = "ready" =>
    \A id \in exploredSource \cup validatedWayIds \cup {features[i].id : i \in DOMAIN features} :
      id \in exploredSource
        <=> (id \in validatedWayIds /\ \E i \in DOMAIN features : features[i].id = id)

\* a street was restored and another validated by a fix since: both are in
\* the source, a third loaded street is not
C24_Witness ==
  /\ phase = "ready"
  /\ mapAlive
  /\ savedData.exploredIds = <<1>>
  /\ validatedWayIds = {1, 2}
  /\ exploredSource = {1, 2}
  /\ Len(features) > 2

\* C25: the "streets-progress" source never holds a polyline of a street
\* whose coverage entry is validated, the street validated by the last fix
\* included.
C25_ProgressOnlyOfUnvalidated ==
  \A i \in DOMAIN coverages :
    coverages[i].validated => coverages[i].wayId \notin progressSource

\* C26: a fix matched within reach to a non-validated street W, snapped at p,
\* leaves covered(W) = old covered(W) united with the samples of W within
\* COVERAGE_RADIUS_METERS of p and leaves every other coverage entry as it
\* was, so that it validates no street but W and the validated set grows by
\* at most one; and no step ever clears a covered flag.
C26_FixMarksExactlyNearSamples ==
  [][ /\ \A i \in DOMAIN coverages : \A k \in DOMAIN coverages[i].covered :
           coverages[i].covered[k] => coverages'[i].covered[k]
      /\ (FixStep /\ lastPosition' # << >>) =>
           LET n == findNearestSegment(lastPosition'[1], lastPosition'[2], coverages)
           IN (/\ ~ n.threw
               /\ n.found
               /\ n.distance <= Sq(MAP_MATCH_MAX_DIST)
               /\ ~ coverages[n.idx].validated) =>
                LET W == coverages[n.idx]
                    W1 == coverages'[n.idx]
                IN /\ \A k \in DOMAIN W.samples :
                        W1.covered[k] <=>
                          \/ W.covered[k]
                          \/ Sq(W.samples[k].lon - n.snappedLon)
                               + Sq(W.samples[k].lat - n.snappedLat)
                               <= Sq(COVERAGE_RADIUS_METERS)
                   /\ \A j \in DOMAIN coverages : j # n.idx => coverages'[j] = coverages[j]
                   /\ validatedCoverageIds(coverages') \ validatedCoverageIds(coverages)
                        \subseteq {W.wayId}
                   /\ validatedWayIds' \ validatedWayIds \subseteq {W.wayId} ]_vars

\* the last fix, at the start of the 40 m street, covered its samples up to
\* the one at exactly COVERAGE_RADIUS_METERS and no further, and touched no
\* other street
C26_Witness ==
  /\ lastPosition = <<0, 0>>
  /\ mapAlive
  /\ \E i \in DOMAIN coverages :
       /\ coverages[i].wayId = 1
       /\ ~ coverages[i].validated
       /\ { k \in DOMAIN coverages[i].samples : coverages[i].covered[k] }
            = { k \in DOMAIN coverages[i].samples :
                  Sq(coverages[i].samples[k].lon) + Sq(coverages[i].samples[k].lat)
                    <= Sq(COVERAGE_RADIUS_METERS) }
       /\ \E k \in DOMAIN coverages[i].samples :
            /\ coverages[i].covered[k]
            /\ coverages[i].samples[k].lon = COVERAGE_RADIUS_METERS
       /\ \A j \in DOMAIN coverages : j # i => countCovered(coverages[j]) = 0

\* the samples of a coverage entry that are covered
coveredSamples(cov) == {k \in DOMAIN cov.covered : cov.covered[k]}

\* C27: in every state, a coverage entry with no covered sample has
\* (minCoveredT, maxCoveredT) = (1, 0); one with covered samples has
\* minCoveredT the smallest and maxCoveredT the largest t among them, so
\* minCoveredT <= maxCoveredT; and a street with a polyline in
\* "streets-progress" is not in the (1, 0) state.
C27_CoveredRange ==
  \A i \in DOMAIN coverages :
    LET c == coverages[i]
        hit == coveredSamples(c)
    IN /\ hit = {} => (c.minCoveredT = <<1, 1>> /\ c.maxCoveredT = <<0, 1>>)
       /\ hit # {} =>
            /\ \E k \in hit : c.samples[k].t = c.minCoveredT
            /\ \A k \in hit : RatLE(c.minCoveredT, c.samples[k].t)
            /\ \E k \in hit : c.samples[k].t = c.maxCoveredT
            /\ \A k \in hit : RatLE(c.samples[k].t, c.maxCoveredT)
            /\ RatLE(c.minCoveredT, c.maxCoveredT)
       /\ c.wayId \in progressSource => ~ RatLT(c.maxCoveredT, c.minCoveredT)

\* C28: findNearestSegment answers null on an empty coverage list; on any
\* other list it answers an entry, validated or not, whose projection
\* distance is the smallest of the list, and among the entries at that
\* distance the first of the list.
C28_NearestIsFirstMinimum ==
  (geoCall.fn = "findNearestSegment" /\ geoResult.done) =>
    LET covs == geoCall.coverages
        n == geoResult.value
        dist(j) == projectOntoLineString(geoCall.lon, geoCall.lat, covs[j].coords).distance
    IN IF covs = << >>
       THEN ~ n.threw /\ ~ n.found
       ELSE /\ ~ n.threw
            /\ n.found
            /\ n.idx \in DOMAIN covs
            /\ n.distance = dist(n.idx)
            /\ \A j \in DOMAIN covs : n.distance <= dist(j)
            /\ \A j \in DOMAIN covs : dist(j) = n.distance => n.idx <= j

\* the arc length from the first vertex of a polyline to its vertex k
lengthTo(coords, k) == SumSeq(SubSeq(segLengthsOf(coords), 1, k - 1))

\* the point of a polyline of positive length at arc-length fraction t: on
\* the first segment that ends at or after it
pointAtFraction(coords, t) ==
  LET segLengths == segLengthsOf(coords)
      total == SumSeq(segLengths)
      i == CHOOSE s \in DOMAIN segLengths :
             /\ lengthTo(coords, s + 1) * t[2] >= t[1] * total
             /\ \A r \in 1..(s - 1) : lengthTo(coords, r + 1) * t[2] < t[1] * total
  IN pointAlong(coords[i], coords[i + 1], segLengths[i],
                <<t[1] * total - lengthTo(coords, i) * t[2], t[2]>>)

\* the vertices of a polyline whose arc-length fraction lies strictly
\* between t0 and t1, in order
verticesBetween(coords, t0, t1) ==
  LET total == SumSeq(segLengthsOf(coords))
      Inside(k) == /\ lengthTo(coords, k) * t0[2] > t0[1] * total
                   /\ lengthTo(coords, k) * t1[2] < t1[1] * total
      idx == SelectSeq([k \in DOMAIN coords |-> k], Inside)
  IN [j \in DOMAIN idx |-> vertexPoint(coords[idx[j]])]

\* C29: subLineString answers null when t0 >= t1 or the polyline has length
\* 0; otherwise it answers the point at fraction t0, then the vertices whose
\* fraction is strictly between t0 and t1, in order and once each, then the
\* point at fraction t1, also when t0 or t1 is the fraction of a vertex.
C29_SubLineContainment ==
  (geoCall.fn = "subLineString" /\ geoResult.done) =>
    LET coords == geoCall.coords
        t0 == geoCall.t0
        t1 == geoCall.t1
        r == geoResult.value
    IN IF RatLE(t1, t0) \/ SumSeq(segLengthsOf(coords)) = 0
       THEN r.null
       ELSE /\ ~ r.null
            /\ r.points = << pointAtFraction(coords, t0) >>
                            \o verticesBetween(coords, t0, t1)
                            \o << pointAtFraction(coords, t1) >>

\* C30: for a polyline of at least 2 vertices sampleLineStringWithT answers
\* a non-empty sequence of samples whose t are all in [0, 1], never
\* decrease along the sequence, start at 0 and end with a sample at the last
\* vertex with t = 1; for fewer than 2 vertices it answers the empty
\* sequence.
C30_SamplerShape ==
  (geoCall.fn = "sampleLineStringWithT" /\ geoResult.done) =>
    LET coords == geoCall.coords
        samples == geoResult.value
    IN IF Len(coords) < 2
       THEN samples = << >>
       ELSE /\ samples # << >>
            /\ \A i \in DOMAIN samples :
                 RatLE(<<0, 1>>, samples[i].t) /\ RatLE(samples[i].t, <<1, 1>>)
            /\ \A i, j \in DOMAIN samples : i < j => RatLE(samples[i].t, samples[j].t)
            /\ samples[1].t = <<0, 1>>
            /\ samples[Len(samples)].t = <<1, 1>>
            /\ samples[Len(samples)].lon = coords[Len(coords)][1]
            /\ samples[Len(samples)].lat = coords[Len(coords)][2]

\* the street with a bend sampled every SAMPLE_STEP_METERS: five samples,
\* the one at the bend half way, the last at the end vertex
C30_Witness ==
  /\ geoCall.fn = "sampleLineStringWithT"
  /\ geoResult.done
  /\ Len(geoCall.coords) = 3
  /\ geoCall.stepMeters = SAMPLE_STEP_METERS
  /\ Len(geoResult.value) = 5
  /\ geoResult.value[3] = [lon |-> 10, lat |-> 50, t |-> <<1, 2>>]
  /\ geoResult.value[5] = [lon |-> 10, lat |-> 60, t |-> <<1, 1>>]

\* the positions of the vertices of a polyline that lie at point pt
verticesAt(coords, pt) == {i \in DOMAIN coords : coords[i] = pt}

C32_BadgeStaysUntilDismissed ==
  [][ currentBadge # "null" =>
        \/ currentBadge' = currentBadge
        \/ (currentBadge' = "null" /\ ~ advanceTimer /\ advanceTimer') ]_vars

\* C33: whatever the interleaving of the select and insert/update steps of
\* the saveExploration calls of a session, the table never holds more than
\* one row for (userId, city), holds exactly one once a call has written,
\* and no insert is refused because another call created the row first.
C33_SaveIsUpsert ==
  /\ Len(table) <= 1
  /\ (\E k \in DOMAIN savePc : savePc[k] = "written") => Len(table) = 1
  /\ \A k \in DOMAIN savePc : savePc[k] # "refused"

\* C34: no state has a badge waiting in the queue with no badge on display
\* and no advance timer pending; and, badges on display being eventually
\* dismissed and advance timers eventually firing, every badge in the queue
\* is eventually the badge on display, so every badge pushed is eventually
\* shown.
C34_QueuedBadgeShown ==
  /\ [] ~ (badgeQueue # << >> /\ currentBadge = "null" /\ ~ advanceTimer)
  /\ \A b \in BadgeIds : (b \in Range(unlockLog)) ~> (b \in Range(shownLog))
  /\ \A b \in BadgeIds : (b \in Range(badgeQueue)) ~> (currentBadge = b)

\* three badges unlocked by one fix have been on display one after the
\* other; the third one is, and the queue is empty
C34_Witness ==
  /\ shownLog = <<"first_step", "explorer", "walker">>
  /\ currentBadge = "walker"
  /\ badgeQueue = << >>
  /\ ~ advanceTimer

\* C35: once the map effect's cleanup has run, no geolocation watch of the
\* session is registered, whatever the load handler does afterwards.
C35_NoWatchAfterTeardown == ~ mapAlive => ~ watching

\* the way ids of a city's streets
streetIds(streets) == {streets[i].id : i \in DOMAIN streets}

\* C36: when the load handler of a session ends, the validated set and the
\* unlocked set are exactly the contents of that city's stored row; and a
\* save request lists only way ids of that row or of that city's streets.
C36_CitySessionsIsolated ==
  [][ /\ (phase = "loading" /\ phase' = "ready") =>
           /\ validatedWayIds' = Range(stored.exploredIds)
           /\ unlockedBadges' = Range(stored.badges)
      /\ saveRequests' # saveRequests =>
           saveRequests'[Len(saveRequests')].explored_way_ids
             \subseteq Range(stored.exploredIds) \cup streetIds(serverStreets) ]_vars

\* C37: once the snapshot has been restored, savedCountRef.current is between
\* 0 and the size of the validated set.
C37_SavedCountWithinValidated ==
  geojsonLoaded => 0 <= savedCount /\ savedCount <= Cardinality(validatedWayIds)

\* the requests overpassFetch sent to endpoint e, in order
requestsTo(e) == SelectSeq(fetchLog, LAMBDA r : r.endpoint = e)

\* endpoint e was contacted and its last answer was not a 2xx
endpointFailed(e) ==
  /\ requestsTo(e) # << >>
  /\ ~ isOk(requestsTo(e)[Len(requestsTo(e))].answer)

\* the error the last answer in the log stands for
lastEndpointError ==
  LET a == fetchLog[Len(fetchLog)].answer
  IN IF a = "network error" THEN "fetch failed" ELSE errorOf(a)

\* C38: overpassFetch contacts the endpoints in their order, at most twice
\* each and a second time only after a 429; a 2xx answer is the last request
\* sent and the call returns it; the call ends in error exactly when every
\* endpoint failed, and then with the error of the last endpoint.
C38_EndpointRotation ==
  /\ fetchLog # << >> => fetchLog[1].endpoint = 1
  /\ \A i \in 1..(Len(fetchLog) - 1) :
       \/ /\ fetchLog[i + 1].endpoint = fetchLog[i].endpoint
          /\ fetchLog[i].answer = "429"
       \/ /\ fetchLog[i + 1].endpoint = fetchLog[i].endpoint + 1
          /\ ~ isOk(fetchLog[i].answer)
  /\ \A e \in DOMAIN ENDPOINTS : Len(requestsTo(e)) <= 2
  /\ \A i \in DOMAIN fetchLog :
       isOk(fetchLog[i].answer) => i = Len(fetchLog) /\ fetchOutcome = "returned"
  /\ fetchOutcome # "running" =>
       (fetchOutcome \in {"rejected", "threw"}
          <=> \A e \in DOMAIN ENDPOINTS : endpointFailed(e))
  /\ fetchOutcome \in {"rejected", "threw"} =>
       fetchOutcome = "threw" /\ fetchLastError = lastEndpointError

\* C39: the cache changes only in the step that answers a request whose two
\* queries both succeeded, and then to that request's data with an expiry
\* 24 h later; a request one of whose queries failed answers 503 and leaves
\* the cache alone; a request is answered from the cache, without the
\* queries being started, exactly when the city has an entry and the time is
\* strictly before the entry's expiry.
C39_CacheDiscipline ==
  [][ /\ cache' # cache =>
           \E r \in DOMAIN gets :
             /\ gets[r].pc = "fetching" /\ gets'[r].pc = "stored"
             /\ gets'[r].answers[1] # "failed" /\ gets'[r].answers[2] # "failed"
             /\ gets'[r].status = 200
             /\ cache' = [cache EXCEPT ![gets[r].city] =
                            [stored |-> TRUE, data |-> gets'[r].body,
                             expiresAt |-> now + CACHE_TTL_MS]]
      /\ \A r \in DOMAIN gets :
           (gets[r].pc = "fetching" /\ gets'[r].pc # "fetching") =>
             IF gets'[r].answers[1] = "failed" \/ gets'[r].answers[2] = "failed"
             THEN gets'[r].status = 503 /\ gets'[r].pc = "failed" /\ cache' = cache
             ELSE gets'[r].pc = "stored"
      /\ Len(gets') > Len(gets) =>
           LET g == gets'[Len(gets')]
           IN g.city \in Cities =>
                IF cache[g.city].stored /\ now < cache[g.city].expiresAt
                THEN g.pc = "hit" /\ g.status = 200 /\ g.body = cache[g.city].data
                ELSE g.pc = "fetching" ]_vars

\* a request answered from the cache in the last millisecond of the entry,
\* after the request that stored it
C39_Witness ==
  /\ Len(gets) = 2
  /\ gets[1].pc = "stored"
  /\ gets[2].pc = "hit"
  /\ gets[2].city = gets[1].city
  /\ now = cache[gets[2].city].expiresAt - 1
  /\ gets[2].body.streets = <<"way", "way">>

\* C40: the suggestions are never set on behalf of an earlier change of the
\* query than the one they were last set for; and while the query is too
\* short to be searched the suggestion list is empty.
C40_SuggestionsFollowLatestQuery ==
  [][ /\ suggestionsBy' >= suggestionsBy
      /\ tooShort(query') => suggestions' = << >> ]_vars

====
